---- MODULE Spec2Model ----
(***************************************************************************)
(* FTTH dashboard (pwngithub/Fiber): the extraction engine of app.py and   *)
(* of its predecessor app_Original.py, and the script-level parse loop     *)
(* that calls it.  Text is a sequence of one-character strings; the        *)
(* regular expressions of the source are patterns run by a small matcher.  *)
(* Amounts are exact numbers of hundredths (the Python floats of the       *)
(* source, without their rounding).                                        *)
(***************************************************************************)
EXTENDS Integers, Sequences, FiniteSets, TLC

\* ------------------------------------------------------------------------
\* Bounds of the explored inputs
\* ------------------------------------------------------------------------
\* longest document, in fragments of the fragment library
MaxFrags == 3
\* longest batch of uploaded files
MaxFiles == 3

\* ------------------------------------------------------------------------
\* Characters
\* ------------------------------------------------------------------------
\* \s of Python's re, restricted to the characters the inputs use
WS == {" ", "\n", "\t"}

DIGITS == {"0", "1", "2", "3", "4", "5", "6", "7", "8", "9"}

DigitSeq == << "0", "1", "2", "3", "4", "5", "6", "7", "8", "9" >>

DigitVal(c) == (CHOOSE i \in 1..10 : DigitSeq[i] = c) - 1

LOWER ==
    << "a", "b", "c", "d", "e", "f", "g", "h", "i", "j", "k", "l", "m",
       "n", "o", "p", "q", "r", "s", "t", "u", "v", "w", "x", "y", "z" >>

UPPER ==
    << "A", "B", "C", "D", "E", "F", "G", "H", "I", "J", "K", "L", "M",
       "N", "O", "P", "Q", "R", "S", "T", "U", "V", "W", "X", "Y", "Z" >>

LowerLetters == {LOWER[n] : n \in 1..26}

\* lower-case letter to upper-case letter
UpperMap == [c \in LowerLetters |-> UPPER[CHOOSE n \in 1..26 : LOWER[n] = c]]

\* str.upper() on one character
UpperChar(c) == IF c \in LowerLetters THEN UpperMap[c] ELSE c

\* str.upper()
Upper(s) == [i \in 1..Len(s) |-> UpperChar(s[i])]

\* two characters are equal, or equal up to letter case under re.IGNORECASE
SameChar(a, b, ic) == a = b \/ (ic /\ UpperChar(a) = UpperChar(b))

\* the characters that match c
Variants(c, ic) ==
    IF ic THEN {c, UpperChar(c)} \cup {x \in LowerLetters : UpperMap[x] = c} ELSE {c}

Max(a, b) == IF a >= b THEN a ELSE b

\* ------------------------------------------------------------------------
\* Regular expressions.  A pattern is a sequence of elements; every pattern
\* of the source is such that greedy matching never has to backtrack: each
\* repetition is followed by a character outside its class, and no
\* alternative is a prefix of another.
\* ------------------------------------------------------------------------
\* a literal string
Lit(s) == [k |-> "lit", s |-> s, alts |-> << >>, cls |-> {}, lo |-> 0, hi |-> 0]

\* [cls]{lo,hi}, greedy; hi = -1 is unbounded
Cls(cls, lo, hi) == [k |-> "cls", s |-> << >>, alts |-> << >>, cls |-> cls, lo |-> lo, hi |-> hi]

\* (a|b|c), the alternatives tried in order
Alt(alts) == [k |-> "alt", s |-> << >>, alts |-> alts, cls |-> {}, lo |-> 0, hi |-> 0]

\* opening and closing parenthesis of a capturing group
GrpOpen == [k |-> "open", s |-> << >>, alts |-> << >>, cls |-> {}, lo |-> 0, hi |-> 0]

GrpClose == [k |-> "close", s |-> << >>, alts |-> << >>, cls |-> {}, lo |-> 0, hi |-> 0]

\* \s*
Ws0 == Cls(WS, 0, -1)

\* \s+
Ws1 == Cls(WS, 1, -1)

NoMatch == [ok |-> FALSE, start |-> 0, end |-> 0, groups |-> << >>]

\* the literal s stands in t at position p (1-based)
LitAt(t, p, s, ic) ==
    /\ p + Len(s) - 1 <= Len(t)
    /\ \A i \in 1..Len(s) : SameChar(t[p + i - 1], s[i], ic)

RECURSIVE RunEnd(_, _, _, _)
\* the position after the longest run of at most n characters of cls at p
\* (n = -1: of any length)
RunEnd(t, p, cls, n) ==
    IF p <= Len(t) /\ n # 0 /\ t[p] \in cls
    THEN RunEnd(t, p + 1, cls, IF n < 0 THEN n ELSE n - 1)
    ELSE p

RECURSIVE MatchFrom(_, _, _, _, _, _, _)
\* re match of the elements j.. of pat at position p of t; gs is the start
\* of the open group and caps the groups closed so far
MatchFrom(t, p, pat, j, gs, caps, ic) ==
    IF j > Len(pat)
    THEN [ok |-> TRUE, start |-> 0, end |-> p, groups |-> caps]
    ELSE LET el == pat[j] IN
         CASE el.k = "lit" ->
                IF LitAt(t, p, el.s, ic)
                THEN MatchFrom(t, p + Len(el.s), pat, j + 1, gs, caps, ic)
                ELSE NoMatch
           [] el.k = "cls" ->
                LET q == RunEnd(t, p, el.cls, el.hi) IN
                IF q - p >= el.lo
                THEN MatchFrom(t, q, pat, j + 1, gs, caps, ic)
                ELSE NoMatch
           [] el.k = "alt" ->
                LET hits == {a \in 1..Len(el.alts) : LitAt(t, p, el.alts[a], ic)} IN
                IF hits = {}
                THEN NoMatch
                ELSE LET a == CHOOSE x \in hits : \A y \in hits : x <= y IN
                     MatchFrom(t, p + Len(el.alts[a]), pat, j + 1, gs, caps, ic)
           [] el.k = "open" ->
                MatchFrom(t, p, pat, j + 1, p, caps, ic)
           [] el.k = "close" ->
                MatchFrom(t, p, pat, j + 1, 0, Append(caps, SubSeq(t, gs, p - 1)), ic)

\* re.search from position p on: the leftmost match, start and end 1-based
\* (end is the position after the match)
SearchFrom(t, p, pat, ic) ==
    LET firsts == Variants(pat[1].s[1], ic)
        hits == {q \in p..Len(t) : t[q] \in firsts /\ MatchFrom(t, q, pat, 1, 0, << >>, ic).ok}
    IN
    IF hits = {}
    THEN NoMatch
    ELSE LET q == CHOOSE x \in hits : \A y \in hits : x <= y IN
         [MatchFrom(t, q, pat, 1, 0, << >>, ic) EXCEPT !.start = q]

\* re.search(pat, t)
Search(t, pat, ic) == SearchFrom(t, 1, pat, ic)

RECURSIVE FindFrom(_, _, _, _, _)
\* the non-overlapping matches from position p on, left to right; hits are
\* the positions at which the pattern matches
FindFrom(t, p, pat, ic, hits) ==
    LET rest == {q \in hits : q >= p} IN
    IF rest = {}
    THEN << >>
    ELSE LET q == CHOOSE x \in rest : \A y \in rest : x <= y
             r == [MatchFrom(t, q, pat, 1, 0, << >>, ic) EXCEPT !.start = q]
         IN  << r >> \o FindFrom(t, IF r.end > r.start THEN r.end ELSE r.end + 1, pat, ic, hits)

\* list(re.finditer(pat, t))
FindIter(t, pat, ic) ==
    LET firsts == Variants(pat[1].s[1], ic) IN
    FindFrom(t, 1, pat, ic,
             {q \in 1..Len(t) : t[q] \in firsts /\ MatchFrom(t, q, pat, 1, 0, << >>, ic).ok})

\* ------------------------------------------------------------------------
\* Literals and patterns of the source
\* ------------------------------------------------------------------------
L_CustomerStatus ==
    << "C", "u", "s", "t", "o", "m", "e", "r", " ", "S", "t", "a", "t", "u", "s" >>

L_ActiveResidential ==
    << "A", "c", "t", "i", "v", "e", " ", "r", "e", "s", "i", "d", "e", "n", "t", "i", "a",
       "l" >>

L_ActiveCommercial ==
    << "A", "c", "t", "i", "v", "e", " ", "C", "o", "m", "m", "e", "r", "c", "i", "a", "l" >>

L_ACT == << "A", "C", "T" >>

L_COM == << "C", "O", "M" >>

L_VIP == << "V", "I", "P" >>

L_Total == << "T", "o", "t", "a", "l" >>

L_Date == << "D", "a", "t", "e", ":" >>

\* [0-9,]
NumCls == DIGITS \cup {","}

\* [0-9,.\(\)-]
AmtCls == DIGITS \cup {",", ".", "(", ")", "-"}

\* "\s*,\s*" between two quoted fields
FieldSep == << Lit(<< "\"" >>), Ws0, Lit(<< "," >>), Ws0, Lit(<< "\"" >>) >>

\* Customer Status\s*",\s*"(ACT|COM|VIP)"\s*,\s*"(Active residential|Active
\* Commercial|VIP)"\s*,\s*"([0-9,]+)"\s*,\s*"([0-9,]+)"   with re.IGNORECASE
header_pat ==
    << Lit(L_CustomerStatus), Ws0, Lit(<< "\"", "," >>), Ws0, Lit(<< "\"" >>),
       GrpOpen, Alt(<< L_ACT, L_COM, L_VIP >>), GrpClose >>
    \o FieldSep \o
    << GrpOpen, Alt(<< L_ActiveResidential, L_ActiveCommercial, L_VIP >>), GrpClose >>
    \o FieldSep \o
    << GrpOpen, Cls(NumCls, 1, -1), GrpClose >>
    \o FieldSep \o
    << GrpOpen, Cls(NumCls, 1, -1), GrpClose, Lit(<< "\"" >>) >>

\* \$([0-9][0-9,.\(\)-]*)
dollar_pat ==
    << Lit(<< "$" >>), GrpOpen, Cls(DIGITS, 1, 1), Cls(AmtCls, 0, -1), GrpClose >>

\* Total\s*:\s*([0-9,]+)\s+([0-9,]+)\s+\$([0-9,.\(\)-]+)
total_pat ==
    << Lit(L_Total), Ws0, Lit(<< ":" >>), Ws0,
       GrpOpen, Cls(NumCls, 1, -1), GrpClose, Ws1,
       GrpOpen, Cls(NumCls, 1, -1), GrpClose, Ws1,
       Lit(<< "$" >>), GrpOpen, Cls(AmtCls, 1, -1), GrpClose >>

\* Date:\s*([0-9]{1,2})/([0-9]{1,2})/([0-9]{4})
date_pat ==
    << Lit(L_Date), Ws0,
       GrpOpen, Cls(DIGITS, 1, 2), GrpClose, Lit(<< "/" >>),
       GrpOpen, Cls(DIGITS, 1, 2), GrpClose, Lit(<< "/" >>),
       GrpOpen, Cls(DIGITS, 4, 4), GrpClose >>

\* ------------------------------------------------------------------------
\* Numeric token parsers
\* ------------------------------------------------------------------------
\* s.replace(c, "")
Remove(s, c) == SelectSeq(s, LAMBDA x : x # c)

\* s.replace(a, b) for one-character a and b
Replace(s, a, b) == [i \in 1..Len(s) |-> IF s[i] = a THEN b ELSE s[i]]

RECURSIVE DigitsVal(_)
\* the value of a string of decimal digits
DigitsVal(s) ==
    IF s = << >>
    THEN 0
    ELSE DigitsVal(SubSeq(s, 1, Len(s) - 1)) * 10 + DigitVal(s[Len(s)])

\* the outcome of a call: a value, or the exception it raised
Value(v) == [exc |-> "none", v |-> v]

Raised(e) == [exc |-> e, v |-> 0]

\* int(s) for a string over [0-9]: ValueError on the empty string
PyInt(s) ==
    IF s # << >> /\ \A i \in 1..Len(s) : s[i] \in DIGITS
    THEN Value(DigitsVal(s))
    ELSE Raised("ValueError")

\* the position of the first "." of s, or Len(s) + 1
DotPos(s) ==
    IF \E i \in 1..Len(s) : s[i] = "."
    THEN CHOOSE i \in 1..Len(s) : s[i] = "." /\ \A j \in 1..(i - 1) : s[j] # "."
    ELSE Len(s) + 1

\* float(s) for a string over [0-9.-], in hundredths: an optional leading
\* minus sign, then digits with at most one point and at least one digit;
\* anything else is a ValueError.  Exact for at most two decimals.
PyFloat(s) ==
    LET neg  == s # << >> /\ s[1] = "-"
        body == IF neg THEN Tail(s) ELSE s
        dot  == DotPos(body)
        ip   == SubSeq(body, 1, dot - 1)
        fp   == SubSeq(body, dot + 1, Len(body))
        fp2  == SubSeq(fp \o << "0", "0" >>, 1, 2)
        okay == /\ \A i \in 1..Len(ip) : ip[i] \in DIGITS
                /\ \A i \in 1..Len(fp) : fp[i] \in DIGITS
                /\ Len(ip) + Len(fp) > 0
        mag  == DigitsVal(ip) * 100 + DigitsVal(fp2)
    IN  IF okay THEN Value(IF neg THEN 0 - mag ELSE mag) ELSE Raised("ValueError")

\* _clean_int giving 0 for a token without a digit
_clean_int_lenient(s) ==
    IF Remove(s, ",") = << >> THEN Value(0) ELSE PyInt(Remove(s, ","))

\* _clean_int
_clean_int(s) == PyInt(Remove(s, ","))

\* _clean_amt
_clean_amt(s) == PyFloat(Remove(Replace(Remove(s, ","), "(", "-"), ")"))

\* ------------------------------------------------------------------------
\* Text normalizer
\* ------------------------------------------------------------------------
\* Collapse with \s in place of \s+: every whitespace character becomes
\* a space
Collapse_each(t) == [j \in 1..Len(t) |-> IF t[j] \in WS THEN " " ELSE t[j]]

\* re.sub(r"\s+", " ", t), character by character: the first character of
\* a run of whitespace becomes the space, the others of the run go
Collapse(t) ==
    LET marked == [j \in 1..Len(t) |->
                      IF t[j] \in WS
                      THEN IF j > 1 /\ t[j - 1] \in WS THEN "drop" ELSE " "
                      ELSE t[j]]
    IN  SelectSeq(marked, LAMBDA c : c # "drop")

\* compact = re.sub(r"\s+", " ", text)
normalize(t) == Collapse(t)

\* ------------------------------------------------------------------------
\* Period labeler
\* ------------------------------------------------------------------------
IsLeap(y) == y % 4 = 0 /\ (y % 100 # 0 \/ y % 400 = 0)

DaysInMonth(y, m) ==
    CASE m \in {1, 3, 5, 7, 8, 10, 12} -> 31
      [] m \in {4, 6, 9, 11} -> 30
      [] OTHER -> IF IsLeap(y) THEN 29 ELSE 28

\* dt.date(y, m, d) is constructed; it raises ValueError otherwise
ValidDate(y, m, d) ==
    /\ y \in 1..9999
    /\ m \in 1..12
    /\ d \in 1..DaysInMonth(y, m)

\* n in decimal, zero-padded to w digits
Pad(n, w) == [i \in 1..w |-> DigitSeq[((n \div (10 ^ (w - i))) % 10) + 1]]

\* dt.date(y, m, d).isoformat()
isoformat(y, m, d) == Pad(y, 4) \o << "-" >> \o Pad(m, 2) \o << "-" >> \o Pad(d, 2)

\* TryDate without the try/except around dt.date
TryDate_noExcept(y, m, d, fallback_label) ==
    IF ValidDate(y, m, d) THEN Value(isoformat(y, m, d)) ELSE Raised("ValueError")

\* the try block after a match: the ISO date, or the fallback label when
\* dt.date raises and the except clause swallows it
TryDate(y, m, d, fallback_label) ==
    IF ValidDate(y, m, d) THEN Value(isoformat(y, m, d)) ELSE Value(fallback_label)

\* _extract_date_label; ic is re.IGNORECASE (app_Original.py only)
_extract_date_label(text, fallback_label, ic) ==
    LET m == Search(text, date_pat, ic) IN
    IF m.ok
    THEN TryDate(DigitsVal(m.groups[3]), DigitsVal(m.groups[1]), DigitsVal(m.groups[2]),
                 fallback_label)
    ELSE Value(fallback_label)

\* ------------------------------------------------------------------------
\* Input library: the fragments documents are made of, and file names
\* ------------------------------------------------------------------------
\* 'Customer Status ","ACT","Active residential","100","100" '
T_hACT ==
    << "C", "u", "s", "t", "o", "m", "e", "r", " ", "S", "t", "a", "t", "u", "s", " ", "\"",
       ",", "\"", "A", "C", "T", "\"", ",", "\"", "A", "c", "t", "i", "v", "e", " ", "r", "e",
       "s", "i", "d", "e", "n", "t", "i", "a", "l", "\"", ",", "\"", "1", "0", "0", "\"", ",",
       "\"", "1", "0", "0", "\"", " " >>

\* 'customer status ","act","active residential","60","50"\n'
T_hAct ==
    << "c", "u", "s", "t", "o", "m", "e", "r", " ", "s", "t", "a", "t", "u", "s", " ", "\"",
       ",", "\"", "a", "c", "t", "\"", ",", "\"", "a", "c", "t", "i", "v", "e", " ", "r", "e",
       "s", "i", "d", "e", "n", "t", "i", "a", "l", "\"", ",", "\"", "6", "0", "\"", ",", "\"",
       "5", "0", "\"", "\n" >>

\* 'Customer Status ", "COM" ,"Active Commercial",\n"1,200", "1,000" '
T_hCOM ==
    << "C", "u", "s", "t", "o", "m", "e", "r", " ", "S", "t", "a", "t", "u", "s", " ", "\"",
       ",", " ", "\"", "C", "O", "M", "\"", " ", ",", "\"", "A", "c", "t", "i", "v", "e", " ",
       "C", "o", "m", "m", "e", "r", "c", "i", "a", "l", "\"", ",", "\n", "\"", "1", ",", "2",
       "0", "0", "\"", ",", " ", "\"", "1", ",", "0", "0", "0", "\"", " " >>

\* 'Customer Status","VIP","VIP","12","12" '
T_hVIP ==
    << "C", "u", "s", "t", "o", "m", "e", "r", " ", "S", "t", "a", "t", "u", "s", "\"", ",",
       "\"", "V", "I", "P", "\"", ",", "\"", "V", "I", "P", "\"", ",", "\"", "1", "2", "\"",
       ",", "\"", "1", "2", "\"", " " >>

\* 'Customer Status ","VIP","VIP","3","," '
T_hBad ==
    << "C", "u", "s", "t", "o", "m", "e", "r", " ", "S", "t", "a", "t", "u", "s", " ", "\"",
       ",", "\"", "V", "I", "P", "\"", ",", "\"", "V", "I", "P", "\"", ",", "\"", "3", "\"",
       ",", "\"", ",", "\"", " " >>

\* '$10.50 '
T_a10 ==
    << "$", "1", "0", ".", "5", "0", " " >>

\* '$1,234.50\n'
T_a1k ==
    << "$", "1", ",", "2", "3", "4", ".", "5", "0", "\n" >>

\* '$1.2.3 '
T_aBad ==
    << "$", "1", ".", "2", ".", "3", " " >>

\* 'Total: 4,309 4,239 $381.22 '
T_tot ==
    << "T", "o", "t", "a", "l", ":", " ", "4", ",", "3", "0", "9", " ", "4", ",", "2", "3",
       "9", " ", "$", "3", "8", "1", ".", "2", "2", " " >>

\* 'Total :150 150 $(21.00) '
T_tot150 ==
    << "T", "o", "t", "a", "l", " ", ":", "1", "5", "0", " ", "1", "5", "0", " ", "$", "(",
       "2", "1", ".", "0", "0", ")", " " >>

\* 'Total: , 5 $1.00 '
T_totBad ==
    << "T", "o", "t", "a", "l", ":", " ", ",", " ", "5", " ", "$", "1", ".", "0", "0", " " >>

\* '$381.22 4,309 4,239 Total '
T_tot2 ==
    << "$", "3", "8", "1", ".", "2", "2", " ", "4", ",", "3", "0", "9", " ", "4", ",", "2",
       "3", "9", " ", "T", "o", "t", "a", "l", " " >>

\* 'Customer Status ACT Active residential 100 100 '
T_hPlainSp ==
    << "C", "u", "s", "t", "o", "m", "e", "r", " ", "S", "t", "a", "t", "u", "s", " ", "A",
       "C", "T", " ", "A", "c", "t", "i", "v", "e", " ", "r", "e", "s", "i", "d", "e", "n",
       "t", "i", "a", "l", " ", "1", "0", "0", " ", "1", "0", "0", " " >>

\* 'Customer Status,ACT,Active residential,100,100 '
T_hPlainCo ==
    << "C", "u", "s", "t", "o", "m", "e", "r", " ", "S", "t", "a", "t", "u", "s", ",", "A",
       "C", "T", ",", "A", "c", "t", "i", "v", "e", " ", "r", "e", "s", "i", "d", "e", "n",
       "t", "i", "a", "l", ",", "1", "0", "0", ",", "1", "0", "0", " " >>

\* '"Customer Status" "ACT" "Active residential" "100" "100" '
T_hQuotSp ==
    << "\"", "C", "u", "s", "t", "o", "m", "e", "r", " ", "S", "t", "a", "t", "u", "s", "\"",
       " ", "\"", "A", "C", "T", "\"", " ", "\"", "A", "c", "t", "i", "v", "e", " ", "r", "e",
       "s", "i", "d", "e", "n", "t", "i", "a", "l", "\"", " ", "\"", "1", "0", "0", "\"", " ",
       "\"", "1", "0", "0", "\"", " " >>

\* 'Customer Status ","COM","Active Commercial","5","0" '
T_hZero ==
    << "C", "u", "s", "t", "o", "m", "e", "r", " ", "S", "t", "a", "t", "u", "s", " ", "\"",
       ",", "\"", "C", "O", "M", "\"", ",", "\"", "A", "c", "t", "i", "v", "e", " ", "C",
       "o", "m", "m", "e", "r", "c", "i", "a", "l", "\"", ",", "\"", "5", "\"", ",", "\"",
       "0", "\"", " " >>

\* 'Total: 7 0 $5.00 '
T_tot0 ==
    << "T", "o", "t", "a", "l", ":", " ", "7", " ", "0", " ", "$", "5", ".", "0", "0", " " >>

\* '$20,000.00 '
T_a20k ==
    << "$", "2", "0", ",", "0", "0", "0", ".", "0", "0", " " >>

\* 290 characters of other text: 29 words 'xxxxxxxxx '
T_pad == [j \in 1..290 |-> IF j % 10 = 0 THEN " " ELSE "x"]

\* 'Date: 1/2/2024 '
T_dOk ==
    << "D", "a", "t", "e", ":", " ", "1", "/", "2", "/", "2", "0", "2", "4", " " >>

\* 'Date: 13/45/2024 '
T_dBad ==
    << "D", "a", "t", "e", ":", " ", "1", "3", "/", "4", "5", "/", "2", "0", "2", "4", " " >>

\* 'Date:2/29/2024\n'
T_dLeap ==
    << "D", "a", "t", "e", ":", "2", "/", "2", "9", "/", "2", "0", "2", "4", "\n" >>

\* 'Date:  02/29/2023 '
T_dNoLeap ==
    << "D", "a", "t", "e", ":", " ", " ", "0", "2", "/", "2", "9", "/", "2", "0", "2", "3",
       " " >>

\* 'Date: n/a '
T_dNA ==
    << "D", "a", "t", "e", ":", " ", "n", "/", "a", " " >>

\* 'date: 3/4/2025 '
T_dLow ==
    << "d", "a", "t", "e", ":", " ", "3", "/", "4", "/", "2", "0", "2", "5", " " >>

\* 'Date: 1/1/0000 '
T_dY0 ==
    << "D", "a", "t", "e", ":", " ", "1", "/", "1", "/", "0", "0", "0", "0", " " >>

\* 'a.pdf'
N_a ==
    << "a", ".", "p", "d", "f" >>

\* 'b.pdf'
N_b ==
    << "b", ".", "p", "d", "f" >>

\* 'c.pdf'
N_c ==
    << "c", ".", "p", "d", "f" >>

\* 'd.pdf'
N_d ==
    << "d", ".", "p", "d", "f" >>

\* 'e.pdf'
N_e ==
    << "e", ".", "p", "d", "f" >>

\* '2024-01-02'
I_dOk ==
    << "2", "0", "2", "4", "-", "0", "1", "-", "0", "2" >>

\* '2024-02-29'
I_dLeap ==
    << "2", "0", "2", "4", "-", "0", "2", "-", "2", "9" >>

\* '2025-03-04'
I_dLow ==
    << "2", "0", "2", "5", "-", "0", "3", "-", "0", "4" >>

\* ------------------------------------------------------------------------
\* Documents and batches
\* ------------------------------------------------------------------------
FragText(f) ==
    CASE f = "hACT" -> T_hACT
      [] f = "hAct" -> T_hAct
      [] f = "hCOM" -> T_hCOM
      [] f = "hVIP" -> T_hVIP
      [] f = "hBad" -> T_hBad
      [] f = "a10" -> T_a10
      [] f = "a1k" -> T_a1k
      [] f = "aBad" -> T_aBad
      [] f = "tot" -> T_tot
      [] f = "tot150" -> T_tot150
      [] f = "totBad" -> T_totBad
      [] f = "tot2" -> T_tot2
      [] f = "hPlainSp" -> T_hPlainSp
      [] f = "hPlainCo" -> T_hPlainCo
      [] f = "hQuotSp" -> T_hQuotSp
      [] f = "dOk" -> T_dOk
      [] f = "dBad" -> T_dBad
      [] f = "dLeap" -> T_dLeap
      [] f = "dNoLeap" -> T_dNoLeap
      [] f = "dNA" -> T_dNA
      [] f = "dLow" -> T_dLow
      [] f = "dY0" -> T_dY0
      [] f = "hZero" -> T_hZero
      [] f = "tot0" -> T_tot0
      [] f = "a20k" -> T_a20k
      [] f = "pad" -> T_pad

\* category blocks of the three categories and their amounts
AggFrags == {"hACT", "hAct", "hCOM", "hVIP", "a10"}

\* category blocks and the forms of the grand-total line
GrandFrags == {"hACT", "hCOM", "a10", "tot", "tot150", "tot2"}

\* malformed numeric tokens among well-formed ones
BadFrags == {"hACT", "hBad", "a10", "aBad", "tot", "totBad"}

\* header layouts
LayoutFrags == {"hPlainSp", "hPlainCo", "hQuotSp", "hACT", "a1k"}

\* a block and a grand-total line whose active count is 0
ZeroFrags == {"hACT", "hZero", "a10", "tot0"}

\* currency tokens at 300 and at 301 characters before a header
WindowFrags == {"a1k", "a20k", "pad", "hACT"}

\* report dates, valid and not
DateFrags == {"dOk", "dBad", "dLeap", "dNoLeap"}

\* date lines the pattern reads differently
DateFrags2 == {"dOk", "dNA", "dLow", "dY0"}

SeqsUpTo(S, n) == UNION {[1..m -> S] : m \in 0..n}

\* the documents explored one at a time
Docs ==
    SeqsUpTo(AggFrags, MaxFrags) \cup SeqsUpTo(BadFrags, MaxFrags)
        \cup SeqsUpTo(LayoutFrags, MaxFrags) \cup SeqsUpTo(DateFrags, MaxFrags)
        \cup SeqsUpTo(GrandFrags, MaxFrags) \cup SeqsUpTo(DateFrags2, MaxFrags)
        \cup SeqsUpTo(ZeroFrags, MaxFrags) \cup SeqsUpTo(WindowFrags, MaxFrags)

\* an uploaded file: its name, what reading it gives (a PDF with a text
\* layer, zero bytes, or bytes pdfplumber cannot open) and its text
File(name, kind, frags) == [name |-> name, kind |-> kind, frags |-> frags]

\* the files batches are made of
Pool ==
    { File(N_b, "pdf", << "dOk", "a10", "hACT" >>),
      File(N_a, "pdf", << "a1k", "hCOM", "tot" >>),
      File(N_c, "pdf", << "a10", "hVIP", "totBad" >>),
      File(N_d, "corrupt", << >>),
      File(N_e, "empty", << >>) }

Batches == SeqsUpTo(Pool, MaxFiles)

Singles == {<< File(N_a, "pdf", d) >> : d \in Docs}

RECURSIVE TextOf(_)
\* the text layer of a document: its fragments, concatenated
TextOf(frags) ==
    IF frags = << >> THEN << >> ELSE FragText(Head(frags)) \o TextOf(Tail(frags))

\* ------------------------------------------------------------------------
\* State
\* ------------------------------------------------------------------------
VARIABLES
    app,            \* which script runs: "app" (app.py) or "orig" (app_Original.py)
    uploaded_files, \* the files handed to the uploader
    pc,             \* position of the script
    i,              \* 1-based index of the file the loop is at
    records,        \* the records list
    outcome,        \* per file the loop is through with: "record", "failed" or "skipped"
    errors,         \* what st.error / st.info reported
    saved,          \* names passed to save_upload_to_local_and_github
    exc,            \* the uncaught exception that ended the script, or "none"
    text,           \* parse_one_pdf: text
    compact,        \* parse_one_pdf: compact
    starts,         \* parse_one_pdf: starts
    k,              \* parse_one_pdf: 1-based position of the block loop in starts
    by_status,      \* parse_one_pdf: by_status
    grand,          \* parse_one_pdf: grand
    m_total,        \* parse_one_pdf: whether re.search found the grand-total line
    current,        \* the record shown as the current report
    overall_arpu,   \* the rate per customer of its grand total
    token,          \* _clean_int, _clean_amt: the argument s
    number          \* what the call on it gave: a value, or the exception raised

vars ==
    << app, uploaded_files, pc, i, records, outcome, errors, saved, exc,
       text, compact, starts, k, by_status, grand, m_total, current, overall_arpu,
       token, number >>

\* the token parsers called on their own
call == << token, number >>

locals == << text, compact, starts, k, by_status, grand, m_total >>

\* Python's None
None == 0 - 1

Categories == {L_ACT, L_COM, L_VIP}

\* the locals of parse_one_pdf are gone once it has returned or raised
NoLocals ==
    /\ text' = << >>
    /\ compact' = << >>
    /\ starts' = << >>
    /\ k' = 0
    /\ by_status' = << >>
    /\ grand' = << >>
    /\ m_total' = FALSE

Init ==
    /\ app \in {"app", "orig"}
    /\ uploaded_files \in Singles \cup Batches
    /\ pc = "start"
    /\ i = 0
    /\ records = << >>
    /\ outcome = << >>
    /\ errors = << >>
    /\ saved = << >>
    /\ exc = "none"
    /\ text = << >>
    /\ compact = << >>
    /\ starts = << >>
    /\ k = 0
    /\ by_status = << >>
    /\ grand = << >>
    /\ m_total = FALSE
    /\ current = << >>
    /\ overall_arpu = << >>
    /\ token = << >>
    /\ number = << >>

\* ------------------------------------------------------------------------
\* Exceptions
\* ------------------------------------------------------------------------
\* an exception e leaves parse_one_pdf with file i: app.py has no handler
\* and the script run ends; app_Original.py reports it and goes on
Propagate(e) ==
    /\ NoLocals
    /\ IF app = "app"
       THEN /\ pc' = "crashed"
            /\ exc' = e
            /\ UNCHANGED << i, outcome, errors >>
       ELSE /\ pc' = "loop"
            /\ i' = i + 1
            /\ outcome' = Append(outcome, "failed")
            /\ errors' = Append(errors, e)
            /\ exc' = exc
    /\ UNCHANGED << app, uploaded_files, records, current >>

\* ------------------------------------------------------------------------
\* parse_one_pdf
\* ------------------------------------------------------------------------
\* the lookback window, in characters
back_window == 300

\* StatusKey without the .upper()
StatusKey_asWritten(code) == code

\* group(1).upper(), the key of by_status
StatusKey(code) == Upper(code)

\* NewByStatus with one dict kept across the calls: the totals of the
\* last record are still in it
NewByStatus_shared ==
    IF records = << >>
    THEN [c \in Categories |-> [act |-> 0, amt |-> 0]]
    ELSE [c \in Categories |->
             [act |-> records[Len(records)].by_status[c].act,
              amt |-> records[Len(records)].by_status[c].amt]]

\* by_status = {"ACT": {"act": 0, "amt": 0.0}, "COM": ..., "VIP": ...},
\* a new dict at every call
NewByStatus == [c \in Categories |-> [act |-> 0, amt |-> 0]]

\* one tuple of starts: (status, act, m.start(), m.end()), 0-based as in Python
HeaderTuple(m) ==
    [status |-> StatusKey(m.groups[1]),
     act    |-> _clean_int(m.groups[4]).v,
     s      |-> m.start - 1,
     e      |-> m.end - 1]

\* Window without the bound: all the text before the header
Window_unbounded(t, s) == SubSeq(t, 1, s)

\* win = compact[max(0, s - 300): s]
Window(t, s) == SubSeq(t, Max(0, s - back_window) + 1, s)

\* the amount of the block whose header starts at s: the last currency
\* token of the window, 0.0 without one, or the ValueError of _clean_amt
BlockAmount(t, s) ==
    LET dollars == FindIter(Window(t, s), dollar_pat, FALSE) IN
    IF dollars # << >>
    THEN _clean_amt(dollars[Len(dollars)].groups[1])
    ELSE Value(0)

\* AddBlock with = in place of +=
AddBlock_overwrite(bs, status, act, amt) ==
    [bs EXCEPT ![status] = [act |-> act, amt |-> amt]]

\* by_status[status]["act"] += act; by_status[status]["amt"] += amt
AddBlock(bs, status, act, amt) ==
    [bs EXCEPT ![status] = [act |-> @.act + act, amt |-> @.amt + amt]]

\* ExplicitGrand with the two counts taken from each other's group
ExplicitGrand_swapped(groups) ==
    LET subs == _clean_int(groups[2])
        act  == _clean_int(groups[1])
        amt  == _clean_amt(groups[3])
    IN  IF subs.exc # "none" THEN Raised(subs.exc)
        ELSE IF act.exc # "none" THEN Raised(act.exc)
        ELSE IF amt.exc # "none" THEN Raised(amt.exc)
        ELSE Value([subs |-> subs.v, act |-> act.v, amt |-> amt.v])

\* the grand total read from the groups of the grand-total line, or the
\* first ValueError of the three conversions
ExplicitGrand(groups) ==
    LET subs == _clean_int(groups[1])
        act  == _clean_int(groups[2])
        amt  == _clean_amt(groups[3])
    IN  IF subs.exc # "none" THEN Raised(subs.exc)
        ELSE IF act.exc # "none" THEN Raised(act.exc)
        ELSE IF amt.exc # "none" THEN Raised(amt.exc)
        ELSE Value([subs |-> subs.v, act |-> act.v, amt |-> amt.v])

\* sum(v[field] for v in by_status.values())
SumOver(bs, field) == bs[L_ACT][field] + bs[L_COM][field] + bs[L_VIP][field]

\* FallbackGrand summing two of the three categories
FallbackGrand_noVIP(bs, a) ==
    IF a = "app"
    THEN [act |-> bs[L_ACT].act + bs[L_COM].act, amt |-> bs[L_ACT].amt + bs[L_COM].amt]
    ELSE [subs |-> None, act |-> bs[L_ACT].act + bs[L_COM].act,
          amt |-> bs[L_ACT].amt + bs[L_COM].amt]

\* the grand total computed from the category totals; app_Original.py
\* keeps the "subs" key, at None
FallbackGrand(bs, a) ==
    IF a = "app"
    THEN [act |-> SumOver(bs, "act"), amt |-> SumOver(bs, "amt")]
    ELSE [subs |-> None, act |-> SumOver(bs, "act"), amt |-> SumOver(bs, "amt")]

\* ------------------------------------------------------------------------
\* The script: upload, parse loop, sort, current report
\* ------------------------------------------------------------------------
RECURSIVE Decimal(_)
\* str(n)
Decimal(n) ==
    IF n < 10 THEN << DigitSeq[n + 1] >> ELSE Decimal(n \div 10) \o << DigitSeq[(n % 10) + 1] >>

\* up.name or f"File {i}"
FallbackLabel(name, n) ==
    IF name # << >> THEN name ELSE << "F", "i", "l", "e", " " >> \o Decimal(n)

\* an exact quotient n / d
Ratio(n, d) == [num |-> n, den |-> d]

\* n / d on Python numbers
PyDiv(n, d) == IF d = 0 THEN Raised("ZeroDivisionError") ELSE Value(Ratio(n, d))

\* Rpc without the "if c_" guard
Rpc_noGuard(amt, c_) == PyDiv(amt, c_)

\* (amt / c_) if c_ else 0
Rpc(amt, c_) == IF c_ # 0 THEN PyDiv(amt, c_) ELSE Value(Ratio(0, 1))

\* by_status[s]["rpc"] = (by_status[s]["amt"] / c_) if c_ else 0, for the
\* three categories
WithRpc(bs) ==
    [c \in DOMAIN bs |->
        [act |-> bs[c].act, amt |-> bs[c].amt, rpc |-> Rpc(bs[c].amt, bs[c].act).v]]

\* overall_arpu = (grand["amt"] / grand["act"]) if grand["act"] else 0
Arpu(g) == Rpc(g.amt, g.act)

\* the characters of period labels, in code point order
CharOrder == << " ", "-", "." >> \o DigitSeq \o UPPER \o LOWER

Ord(c) == CHOOSE n \in 1..Len(CharOrder) : CharOrder[n] = c

RECURSIVE LexLess(_, _)
\* a < b on Python strings
LexLess(a, b) ==
    IF b = << >> THEN FALSE
    ELSE IF a = << >> THEN TRUE
    ELSE IF a[1] = b[1] THEN LexLess(Tail(a), Tail(b))
    ELSE Ord(a[1]) < Ord(b[1])

\* datetime.fromisoformat(p) succeeds, for the labels the script builds
IsIsoDate(p) ==
    /\ Len(p) = 10
    /\ p[5] = "-"
    /\ p[8] = "-"
    /\ \A j \in {1, 2, 3, 4, 6, 7, 9, 10} : p[j] \in DIGITS
    /\ ValidDate(DigitsVal(SubSeq(p, 1, 4)), DigitsVal(SubSeq(p, 6, 7)),
                 DigitsVal(SubSeq(p, 9, 10)))

\* r goes after every record of the sorted s that is not greater (stable)
InsertSorted(s, r) ==
    LET n == Cardinality({j \in 1..Len(s) : ~LexLess(r.period, s[j].period)}) IN
    SubSeq(s, 1, n) \o << r >> \o SubSeq(s, n + 1, Len(s))

RECURSIVE SortRecords(_)
\* records.sort(key=lambda r: r["period"])
SortRecords(rs) ==
    IF rs = << >>
    THEN << >>
    ELSE InsertSorted(SortRecords(SubSeq(rs, 1, Len(rs) - 1)), rs[Len(rs)])

\* _period_key gives a datetime for some records and a str for others:
\* list.sort raises TypeError on comparing the two
MixedKeys(rs) ==
    \E a, b \in 1..Len(rs) : IsIsoDate(rs[a].period) /\ ~IsIsoDate(rs[b].period)

\* the script starts: st.stop() when nothing was uploaded
Begin ==
    /\ pc = "start"
    /\ IF uploaded_files = << >>
       THEN /\ pc' = "stopped"
            /\ errors' = Append(errors, "info")
            /\ i' = i
       ELSE /\ pc' = "loop"
            /\ errors' = errors
            /\ i' = 1
    /\ UNCHANGED << app, uploaded_files, records, outcome, saved, exc, locals, current,
                    overall_arpu, call >>

\* the loop takes file i: up.read(), the upload is saved (app.py), the
\* text is extracted and normalized
ReadFile ==
    /\ pc = "loop"
    /\ i <= Len(uploaded_files)
    /\ LET up == uploaded_files[i] IN
       IF app = "app" /\ up.kind = "empty"
       THEN /\ i' = i + 1
            /\ outcome' = Append(outcome, "skipped")
            /\ UNCHANGED << app, uploaded_files, pc, records, errors, saved, exc, locals,
                            current >>
       ELSE /\ saved' = IF app = "app" THEN Append(saved, up.name) ELSE saved
            /\ IF up.kind # "pdf"
               THEN Propagate("PDFSyntaxError")
               ELSE /\ text' = TextOf(up.frags)
                    /\ compact' = normalize(TextOf(up.frags))
                    /\ pc' = "headers"
                    /\ UNCHANGED << app, uploaded_files, i, records, outcome, errors, exc,
                                    starts, k, by_status, grand, m_total, current >>
    /\ UNCHANGED << overall_arpu, call >>

\* starts = [... for m in header_pat.finditer(compact)]; by_status is created
LocateHeaders ==
    /\ pc = "headers"
    /\ LET ms == FindIter(compact, header_pat, TRUE) IN
       IF \E j \in 1..Len(ms) : _clean_int(ms[j].groups[4]).exc # "none"
       THEN Propagate("ValueError")
       ELSE /\ starts' = [j \in 1..Len(ms) |-> HeaderTuple(ms[j])]
            /\ by_status' = NewByStatus
            /\ k' = 1
            /\ pc' = "blocks"
            /\ UNCHANGED << app, uploaded_files, i, records, outcome, errors, exc,
                            text, compact, grand, m_total, current >>
    /\ UNCHANGED << saved, overall_arpu, call >>

\* one iteration of "for status, act, s, e in starts"
AccumulateBlock ==
    /\ pc = "blocks"
    /\ k <= Len(starts)
    /\ LET b   == starts[k]
           amt == BlockAmount(compact, b.s)
       IN  IF amt.exc # "none"
           THEN Propagate(amt.exc)
           ELSE IF b.status \notin DOMAIN by_status
           THEN Propagate("KeyError")
           ELSE /\ by_status' = AddBlock(by_status, b.status, b.act, amt.v)
                /\ k' = k + 1
                /\ UNCHANGED << app, uploaded_files, pc, i, records, outcome, errors, exc,
                                text, compact, starts, grand, m_total, current >>
    /\ UNCHANGED << saved, overall_arpu, call >>

\* after the loop: the grand-total line, or the sum of the categories;
\* parse_one_pdf returns
GrandTotal ==
    /\ pc = "blocks"
    /\ k > Len(starts)
    /\ LET m == Search(compact, total_pat, app = "orig") IN
       IF m.ok
       THEN LET g == ExplicitGrand(m.groups) IN
            IF g.exc # "none"
            THEN Propagate(g.exc)
            ELSE /\ grand' = g.v
                 /\ m_total' = TRUE
                 /\ pc' = "parsed"
                 /\ UNCHANGED << app, uploaded_files, i, records, outcome, errors, exc,
                                 text, compact, starts, k, by_status, current >>
       ELSE /\ grand' = FallbackGrand(by_status, app)
            /\ m_total' = FALSE
            /\ pc' = "parsed"
            /\ UNCHANGED << app, uploaded_files, i, records, outcome, errors, exc,
                            text, compact, starts, k, by_status, current >>
    /\ UNCHANGED << saved, overall_arpu, call >>

\* the rest of the loop body: period label, rpc, records.append
FinishFile ==
    /\ pc = "parsed"
    /\ LET up  == uploaded_files[i]
           lab == _extract_date_label(text, FallbackLabel(up.name, i), app = "orig")
       IN  IF lab.exc # "none"
           THEN Propagate(lab.exc)
           ELSE IF \E c \in Categories : Rpc(by_status[c].amt, by_status[c].act).exc # "none"
           THEN Propagate("ZeroDivisionError")
           ELSE /\ records' = Append(records, [period    |-> lab.v,
                                               grand     |-> grand,
                                               by_status |-> WithRpc(by_status)])
                /\ outcome' = Append(outcome, "record")
                /\ i' = i + 1
                /\ pc' = "loop"
                /\ NoLocals
                /\ UNCHANGED << app, uploaded_files, errors, exc, current >>
    /\ UNCHANGED << saved, overall_arpu, call >>

\* the script ends with the uncaught exception e
Crash(e) ==
    /\ pc' = "crashed"
    /\ exc' = e
    /\ UNCHANGED << records, errors, current, overall_arpu >>

\* the sorted records replace the list; r = records[-1] is the current
\* report and overall_arpu its rate per customer
Report(sorted) ==
    LET r == sorted[Len(sorted)]
        a == Arpu(r.grand)
    IN  /\ records' = sorted
        /\ current' = r
        /\ errors' = errors
        /\ IF a.exc # "none"
           THEN /\ pc' = "crashed"
                /\ exc' = a.exc
                /\ overall_arpu' = overall_arpu
           ELSE /\ pc' = "report"
                /\ exc' = exc
                /\ overall_arpu' = a.v

\* after the loop: the empty-records guard (app.py), the sort, and the
\* current report r = records[-1]
EndLoop ==
    /\ pc = "loop"
    /\ i > Len(uploaded_files)
    /\ IF app = "app"
       THEN IF records = << >>
            THEN /\ pc' = "stopped"
                 /\ errors' = Append(errors, "No valid records")
                 /\ UNCHANGED << records, exc, current, overall_arpu >>
            ELSE Report(SortRecords(records))
       ELSE IF MixedKeys(records)
            THEN Crash("TypeError")
            ELSE IF records = << >>
            THEN Crash("IndexError")
            ELSE Report(SortRecords(records))
    /\ UNCHANGED << app, uploaded_files, i, outcome, saved, locals, call >>

Next ==
    \/ Begin
    \/ ReadFile
    \/ LocateHeaders
    \/ AccumulateBlock
    \/ GrandTotal
    \/ FinishFile
    \/ EndLoop

Spec == Init /\ [][Next]_vars

TypeOK ==
    /\ app \in {"app", "orig"}
    /\ pc \in {"start", "loop", "headers", "blocks", "parsed", "report", "stopped", "crashed"}
    /\ i \in 0..(Len(uploaded_files) + 1)
    /\ Len(outcome) <= Len(uploaded_files)

\* ------------------------------------------------------------------------
\* The normalizer and the token parsers, called on their own
\* ------------------------------------------------------------------------
\* bounds on the texts and tokens they are called on
MaxText == 4

MaxToken == 4

TextChars == {"a", ",", " ", "\n", "\t"}

TokenChars == {"1", "5", ",", ".", "(", ")", "-"}

\* '1,234.50'
E_amount ==
    << "1", ",", "2", "3", "4", ".", "5", "0" >>

\* '(500.00)'
E_negative ==
    << "(", "5", "0", "0", ".", "0", "0", ")" >>

\* '3,727'
E_count ==
    << "3", ",", "7", "2", "7" >>

Texts == SeqsUpTo(TextChars, MaxText)

Tokens == SeqsUpTo(TokenChars, MaxToken) \cup {E_amount, E_negative, E_count}

CallInit ==
    /\ app = "app"
    /\ uploaded_files = << >>
    /\ i = 0
    /\ records = << >>
    /\ outcome = << >>
    /\ errors = << >>
    /\ saved = << >>
    /\ exc = "none"
    /\ compact = << >>
    /\ starts = << >>
    /\ k = 0
    /\ by_status = << >>
    /\ grand = << >>
    /\ m_total = FALSE
    /\ current = << >>
    /\ overall_arpu = << >>
    /\ number = << >>
    /\ \/ pc = "normalize" /\ text \in Texts /\ token = << >>
       \/ pc = "clean" /\ text = << >> /\ token \in Tokens

\* compact = re.sub(r"\s+", " ", text)
Normalize ==
    /\ pc = "normalize"
    /\ compact' = normalize(text)
    /\ pc' = "normalized"
    /\ UNCHANGED << app, uploaded_files, i, records, outcome, errors, saved, exc, text,
                    starts, k, by_status, grand, m_total, current, overall_arpu, call >>

\* _clean_int(s)
CleanInt ==
    /\ pc = "clean"
    /\ number' = _clean_int(token)
    /\ pc' = "int"
    /\ UNCHANGED << app, uploaded_files, i, records, outcome, errors, saved, exc, locals,
                    current, overall_arpu, token >>

\* _clean_amt(s)
CleanAmt ==
    /\ pc = "clean"
    /\ number' = _clean_amt(token)
    /\ pc' = "amt"
    /\ UNCHANGED << app, uploaded_files, i, records, outcome, errors, saved, exc, locals,
                    current, overall_arpu, token >>

CallNext ==
    \/ Normalize
    \/ CleanInt
    \/ CleanAmt

CallSpec == CallInit /\ [][CallNext]_vars

\* ------------------------------------------------------------------------
\* What the documents of the input library say, fragment by fragment
\* (the reference the properties compare the parse with)
\* ------------------------------------------------------------------------
\* headers in the quoted, comma-separated layout
QuotedHeaders == {"hACT", "hAct", "hCOM", "hVIP", "hBad", "hZero"}

\* headers in the other layouts: unquoted or space-separated
OtherHeaders == {"hPlainSp", "hPlainCo", "hQuotSp"}

\* the category code of a header, in upper case
FragCat(f) ==
    CASE f \in {"hACT", "hAct", "hPlainSp", "hPlainCo", "hQuotSp"} -> L_ACT
      [] f \in {"hCOM", "hZero"} -> L_COM
      [] f \in {"hVIP", "hBad"} -> L_VIP

\* the active count of a header: its second numeric field
FragAct(f) ==
    CASE f \in {"hACT", "hPlainSp", "hPlainCo", "hQuotSp"} -> 100
      [] f = "hAct" -> 50
      [] f = "hCOM" -> 1000
      [] f = "hVIP" -> 12
      [] f \in {"hBad", "hZero"} -> 0

\* fragments with a currency token that starts with a digit
DollarFrags == {"a10", "a1k", "a20k", "aBad", "tot", "totBad", "tot2", "tot0"}

\* the value of that token, in hundredths (aBad has none: 1.2.3)
FragDollar(f) ==
    CASE f = "a10" -> 1050
      [] f = "a1k" -> 123450
      [] f = "a20k" -> 2000000
      [] f \in {"tot", "tot2"} -> 38122
      [] f = "totBad" -> 100
      [] f = "tot0" -> 500
      [] f = "aBad" -> 0

\* grand-total lines in the layout <label>: <subs> <active> $<amount>
TotalFrags == {"tot", "tot150", "totBad", "tot0"}

\* the numbers on a grand-total line (totBad has no subscriber count)
FragTotal(f) ==
    CASE f \in {"tot", "tot2"} -> [subs |-> 4309, act |-> 4239, amt |-> 38122]
      [] f = "tot150" -> [subs |-> 150, act |-> 150, amt |-> 0 - 2100]
      [] f = "totBad" -> [subs |-> 0, act |-> 5, amt |-> 100]
      [] f = "tot0" -> [subs |-> 7, act |-> 0, amt |-> 500]

\* the first position of frags holding a fragment of S, or 0
FirstIn(frags, S) ==
    LET ps == {p \in 1..Len(frags) : frags[p] \in S} IN
    IF ps = {} THEN 0 ELSE CHOOSE p \in ps : \A q \in ps : p <= q

\* the last position before j holding a fragment of S, or 0
LastBefore(frags, j, S) ==
    LET ps == {p \in 1..(j - 1) : frags[p] \in S} IN
    IF ps = {} THEN 0 ELSE CHOOSE p \in ps : \A q \in ps : p >= q

\* the fragments of the library
AllFrags ==
    AggFrags \cup GrandFrags \cup BadFrags \cup LayoutFrags \cup DateFrags \cup DateFrags2
        \cup ZeroFrags \cup WindowFrags

\* the number of characters a fragment takes in the normalized text (no
\* fragment starts with whitespace, each ends with it)
FragLen == [f \in AllFrags |-> Len(normalize(FragText(f)))]

\* where the currency sign of a fragment stands in it, from 0
DollarAt ==
    [f \in DollarFrags |->
        LET t == normalize(FragText(f)) IN
        (CHOOSE n \in 1..Len(t) : t[n] = "$" /\ \A h \in 1..(n - 1) : t[h] # "$") - 1]

RECURSIVE CharsBetween(_, _, _)
\* the number of characters of the fragments p..(j - 1)
CharsBetween(frags, p, j) ==
    IF p >= j THEN 0 ELSE FragLen[frags[p]] + CharsBetween(frags, p + 1, j)

\* the position of the currency token nearest before the header at
\* position j among those that start at most 300 characters before the
\* header, or 0
NearestDollar(frags, j) ==
    LET ps == {p \in 1..(j - 1) :
                  /\ frags[p] \in DollarFrags
                  /\ CharsBetween(frags, p, j) - DollarAt[frags[p]] <= back_window}
    IN  IF ps = {} THEN 0 ELSE CHOOSE p \in ps : \A q \in ps : p >= q

\* the amount of the header at position j: the value of that token, or 0
RefAmount(frags, j) ==
    LET p == NearestDollar(frags, j) IN
    IF p = 0 THEN 0 ELSE FragDollar(frags[p])

RECURSIVE RefAct(_, _, _)
\* the sum of the active counts of the quoted headers of category c among
\* the first n fragments
RefAct(frags, c, n) ==
    IF n = 0
    THEN 0
    ELSE RefAct(frags, c, n - 1)
           + (IF frags[n] \in QuotedHeaders /\ FragCat(frags[n]) = c
              THEN FragAct(frags[n]) ELSE 0)

RECURSIVE RefAmt(_, _, _)
\* the sum of the amounts of those headers
RefAmt(frags, c, n) ==
    IF n = 0
    THEN 0
    ELSE RefAmt(frags, c, n - 1)
           + (IF frags[n] \in QuotedHeaders /\ FragCat(frags[n]) = c
              THEN RefAmount(frags, n) ELSE 0)

\* a block of the document has a malformed count or amount token
BadBlock(frags) ==
    \E j \in 1..Len(frags) :
        /\ frags[j] \in QuotedHeaders
        /\ \/ frags[j] = "hBad"
           \/ LET p == NearestDollar(frags, j) IN p # 0 /\ frags[p] = "aBad"

\* the grand-total line of the document is malformed
BadTotal(frags) ==
    LET p == FirstIn(frags, TotalFrags) IN p # 0 /\ frags[p] = "totBad"

\* the file the loop is at, while parse_one_pdf runs on it
InParse == pc \in {"headers", "blocks", "parsed"}

CurFrags == uploaded_files[i].frags

\* the script has ended
Terminal == pc \in {"report", "stopped", "crashed"}

\* the file the n-th record was built from, before the records are sorted
FileOfRecord(n) ==
    CHOOSE j \in 1..Len(outcome) :
        /\ outcome[j] = "record"
        /\ Cardinality({h \in 1..j : outcome[h] = "record"}) = n

\* parse_one_pdf raises exactly on the documents with a malformed token
ParseOutcome ==
    /\ pc = "parsed" => ~BadBlock(CurFrags) /\ ~BadTotal(CurFrags)
    /\ \A j \in 1..Len(outcome) :
          outcome[j] = "failed" =>
              \/ uploaded_files[j].kind # "pdf"
              \/ BadBlock(uploaded_files[j].frags)
              \/ BadTotal(uploaded_files[j].frags)

\* ------------------------------------------------------------------------
\* Properties
\* ------------------------------------------------------------------------
RECURSIVE FoldSum(_, _, _)
\* the sum of a field over the categories of S
FoldSum(S, bs, field) ==
    IF S = {}
    THEN 0
    ELSE LET c == CHOOSE x \in S : TRUE IN bs[c][field] + FoldSum(S \ {c}, bs, field)

\* C1: when parse_one_pdf returns and no explicit grand-total line was
\* matched, the active count of the grand total is the sum of the active
\* counts of the three category totals, and its amount the sum of their
\* amounts.
C1_FallbackComplete ==
    (pc = "parsed" /\ ~m_total) =>
        /\ grand.act = FoldSum(Categories, by_status, "act")
        /\ grand.amt = FoldSum(Categories, by_status, "amt")

\* C1 happens: a fallback grand total over blocks of several categories
C1_Witness ==
    /\ pc = "parsed"
    /\ ~m_total
    /\ by_status[L_ACT].act > 0
    /\ by_status[L_COM].act > 0
    /\ by_status[L_VIP].act > 0
    /\ grand.act = 1112

\* C2: when an explicit grand-total line is matched, the grand total that
\* parse_one_pdf returns carries the subscriber count, the active count and
\* the amount written on the first such line of the document, whatever the
\* category totals add up to.
C2_ExplicitAuthoritative ==
    (pc = "parsed" /\ m_total) =>
        LET p == FirstIn(CurFrags, TotalFrags) IN
        /\ p # 0
        /\ grand = FragTotal(CurFrags[p])

\* C2 happens: the line's active count differs from the sum of the blocks
C2_Witness ==
    /\ pc = "parsed"
    /\ m_total
    /\ by_status[L_COM].act > 0
    /\ grand.act # FoldSum(Categories, by_status, "act")
    /\ grand.amt # FoldSum(Categories, by_status, "amt")

\* C3: when parse_one_pdf returns, the active count of each category is the
\* sum of the second numeric fields of all the located headers of that
\* category, and its amount the sum of the amounts of those blocks.
C3_MultiBlockSum ==
    pc = "parsed" =>
        \A c \in Categories :
            /\ by_status[c].act = RefAct(CurFrags, c, Len(CurFrags))
            /\ by_status[c].amt = RefAmt(CurFrags, c, Len(CurFrags))

\* C3 happens: two blocks of one category, of counts 100 and 50, and a
\* block of another
C3_Witness ==
    /\ pc = "parsed"
    /\ \E a, b \in 1..Len(CurFrags) : CurFrags[a] = "hACT" /\ CurFrags[b] = "hAct"
    /\ by_status[L_ACT].act = 150
    /\ by_status[L_ACT].amt > 0

\* C4: by_status has exactly the keys ACT, COM and VIP, in parse_one_pdf
\* and in every record; a category without a located block is at count 0
\* and amount 0; a header whose code is in lower case is accumulated under
\* its upper-case key and no KeyError is raised.
C4_ClosedWorld ==
    /\ pc \in {"blocks", "parsed"} => DOMAIN by_status = Categories
    /\ \A n \in 1..Len(records) : DOMAIN records[n].by_status = Categories
    /\ pc = "parsed" =>
          \A c \in Categories :
              (\A j \in 1..Len(CurFrags) :
                    ~(CurFrags[j] \in QuotedHeaders /\ FragCat(CurFrags[j]) = c))
                  => (by_status[c].act = 0 /\ by_status[c].amt = 0)
    /\ pc = "parsed" =>
          ((\E j \in 1..Len(CurFrags) : CurFrags[j] = "hAct") => by_status[L_ACT].act >= 50)
    /\ exc # "KeyError"
    /\ \A n \in 1..Len(errors) : errors[n] # "KeyError"

\* C4 happens: a lower-case header, a second category, and none of the third
C4_Witness ==
    /\ pc = "parsed"
    /\ \E j \in 1..Len(CurFrags) : CurFrags[j] = "hAct"
    /\ by_status[L_ACT].act > 0
    /\ by_status[L_COM].act > 0
    /\ by_status[L_VIP] = [act |-> 0, amt |-> 0]

\* a file that is a readable PDF without a malformed token
GoodFile(f) == f.kind = "pdf" /\ ~BadBlock(f.frags) /\ ~BadTotal(f.frags)

\* C5: once the script has ended on a batch that holds a well-formed
\* document and one that fails, there is one outcome per uploaded file: a
\* record for every well-formed document, whatever precedes or follows it
\* in the batch, and no record for the others.
C5_BatchIsolation ==
    (/\ Terminal
     /\ \E j \in 1..Len(uploaded_files) : GoodFile(uploaded_files[j])
     /\ \E j \in 1..Len(uploaded_files) : ~GoodFile(uploaded_files[j])) =>
        \A j \in 1..Len(uploaded_files) :
            /\ j <= Len(outcome)
            /\ GoodFile(uploaded_files[j]) <=> outcome[j] = "record"

\* C6: a document whose only malformed tokens are the count or the amount
\* of a block yields a record: it neither ends the script nor fails.
C6_BadBlockSkipped ==
    /\ \A j \in 1..Len(outcome) :
          (uploaded_files[j].kind = "pdf" /\ BadBlock(uploaded_files[j].frags)
             /\ ~BadTotal(uploaded_files[j].frags))
            => outcome[j] = "record"
    /\ ~(/\ pc = "crashed"
         /\ i \in 1..Len(uploaded_files)
         /\ uploaded_files[i].kind = "pdf"
         /\ BadBlock(uploaded_files[i].frags)
         /\ ~BadTotal(uploaded_files[i].frags))

\* C7: a document whose grand-total line is malformed, and nothing else,
\* yields a record whose grand total is the sum of the category totals.
C7_BadTotalFallsBack ==
    /\ \A j \in 1..Len(outcome) :
          (uploaded_files[j].kind = "pdf" /\ BadTotal(uploaded_files[j].frags)
             /\ ~BadBlock(uploaded_files[j].frags))
            => outcome[j] = "record"
    /\ ~(/\ pc = "crashed"
         /\ i \in 1..Len(uploaded_files)
         /\ uploaded_files[i].kind = "pdf"
         /\ BadTotal(uploaded_files[i].frags)
         /\ ~BadBlock(uploaded_files[i].frags))
    /\ (pc = "parsed" /\ BadTotal(CurFrags)) =>
          /\ grand.act = FoldSum(Categories, by_status, "act")
          /\ grand.amt = FoldSum(Categories, by_status, "amt")

\* fragments in which the date marker is followed by an M/D/YYYY triple;
\* app_Original.py matches the marker in any letter case
DateTriples(a) ==
    {"dOk", "dBad", "dLeap", "dNoLeap", "dY0"} \cup (IF a = "orig" THEN {"dLow"} ELSE {})

\* the triples that are calendar dates, and their ISO form
FragIso(f) ==
    CASE f = "dOk" -> I_dOk
      [] f = "dLeap" -> I_dLeap
      [] f = "dLow" -> I_dLow

\* the period label of a file: the ISO date of its first triple when that
\* is a calendar date, its name otherwise
RefPeriod(f, a) ==
    LET p == FirstIn(f.frags, DateTriples(a)) IN
    IF p # 0 /\ f.frags[p] \in {"dOk", "dLeap", "dLow"}
    THEN FragIso(f.frags[p])
    ELSE f.name

\* C8: the period of every record is the ISO date of the first
\* "Date: M/D/YYYY" of its document when that triple is a calendar date,
\* and the fallback label, unchanged, when the document has no such marker
\* or the triple is no calendar date; labeling raises nothing: no
\* well-formed document fails or ends the script.
C8_PeriodLabel ==
    /\ pc = "loop" =>
          \A n \in 1..Len(records) :
              records[n].period = RefPeriod(uploaded_files[FileOfRecord(n)], app)
    /\ \A j \in 1..Len(outcome) : GoodFile(uploaded_files[j]) => outcome[j] = "record"
    /\ (pc = "crashed" /\ i \in 1..Len(uploaded_files)) => ~GoodFile(uploaded_files[i])

\* C8 happens: "Date: 13/45/2024" ahead of a valid date gives the fallback
C8_Witness ==
    /\ pc = "loop"
    /\ Len(records) = 1
    /\ Len(uploaded_files) = 1
    /\ Len(uploaded_files[1].frags) >= 2
    /\ uploaded_files[1].frags[1] = "dBad"
    /\ uploaded_files[1].frags[2] = "dLeap"
    /\ records[1].period = N_a

\* C9: the grand total is read from the first line in the layout
\* <label>: <subs> <active> $<amount> when there is one, else from the line
\* in the layout $<amount> <subs> <active> <label> when there is one, and
\* is the sum of the category totals only when there is neither.
C9_BothLayouts ==
    pc = "parsed" =>
        LET p == FirstIn(CurFrags, TotalFrags)
            q == FirstIn(CurFrags, {"tot2"})
        IN  IF p # 0 \/ q # 0
            THEN LET line == FragTotal(CurFrags[IF p # 0 THEN p ELSE q]) IN
                 /\ m_total
                 /\ grand.act = line.act
                 /\ grand.amt = line.amt
            ELSE /\ ~m_total
                 /\ grand.act = FoldSum(Categories, by_status, "act")
                 /\ grand.amt = FoldSum(Categories, by_status, "amt")

\* C10: every category header of the document is located as a block, be
\* its fields quoted or not, and separated by commas or by spaces.
C10_HeaderLayouts ==
    pc \in {"blocks", "parsed"} =>
        Len(starts) =
            Cardinality({j \in 1..Len(CurFrags) : CurFrags[j] \in QuotedHeaders \cup OtherHeaders})

\* plain currency tokens, as a header row may end with
AmountFrags == {"a10", "a1k"}

\* the block of the header at position j has its amount after the header:
\* the next fragment is a currency token
AmountFollows(frags, j) == j < Len(frags) /\ frags[j + 1] \in AmountFrags

\* C11: when the header of a block is directly followed by a currency
\* token, no other header in between, the amount of the block is that
\* token's value, also when a currency token precedes the header (shown on
\* documents with one located header, whose category total is the block).
C11_AmountAfterHeader ==
    pc = "parsed" =>
        \A j \in 1..Len(CurFrags) :
            (/\ CurFrags[j] \in QuotedHeaders
             /\ AmountFollows(CurFrags, j)
             /\ \A h \in 1..Len(CurFrags) : CurFrags[h] \in QuotedHeaders => h = j)
                => by_status[FragCat(CurFrags[j])].amt = FragDollar(CurFrags[j + 1])

\* the rate a / c as the reader of a report expects it
RefRate(amt, act) == IF act = 0 THEN Ratio(0, 1) ELSE Ratio(amt, act)

\* C12: the rate per customer of every category of every record, and of
\* the grand total of the current report, is amount / active count when
\* the active count is not 0 and 0 when it is, whatever the amount; no
\* division by zero is raised, in the loop or at the report.
C12_RateNeverDividesByZero ==
    /\ exc # "ZeroDivisionError"
    /\ \A n \in 1..Len(errors) : errors[n] # "ZeroDivisionError"
    /\ \A n \in 1..Len(records) :
          \A c \in Categories :
              LET t == records[n].by_status[c] IN
              /\ t.rpc.den # 0
              /\ t.rpc = RefRate(t.amt, t.act)
    /\ pc = "report" =>
          /\ overall_arpu.den # 0
          /\ overall_arpu = RefRate(current.grand.amt, current.grand.act)
    /\ \A j \in 1..Len(outcome) : GoodFile(uploaded_files[j]) => outcome[j] = "record"

\* C12 happens: a category and a grand total with amount but no customer
C12_Witness ==
    /\ pc = "report"
    /\ current.by_status[L_COM].act = 0
    /\ current.by_status[L_COM].amt = 1050
    /\ current.by_status[L_COM].rpc = Ratio(0, 1)
    /\ current.grand.act = 0
    /\ current.grand.amt = 500
    /\ overall_arpu = Ratio(0, 1)

\* C13: sorting the records never fails, whatever mix of ISO dates and
\* fallback labels their periods are; at the report the records are in
\* non-decreasing lexical order of period, and the current report is the
\* last of them.
C13_RecordSetOrdered ==
    /\ exc # "TypeError"
    /\ pc = "report" =>
          /\ \A n \in 1..(Len(records) - 1) :
                ~LexLess(records[n + 1].period, records[n].period)
          /\ current = records[Len(records)]

\* the characters of t that are not whitespace, in order
Ink(t) == SelectSeq(t, LAMBDA c : c \notin WS)

\* the number of maximal runs of whitespace of t
Runs(t) == Cardinality({j \in 1..Len(t) : t[j] \in WS /\ (j = 1 \/ t[j - 1] \notin WS)})

\* C14: normalizing a normalized text changes nothing; the normalized text
\* has one space for each maximal run of whitespace of the text, no other
\* whitespace character and no two spaces in a row, and its other
\* characters are those of the text, in the same order.
C14_NormalizeIdempotent ==
    pc = "normalized" =>
        /\ normalize(compact) = compact
        /\ \A j \in 1..Len(compact) : compact[j] \in WS => compact[j] = " "
        /\ \A j \in 1..(Len(compact) - 1) : ~(compact[j] = " " /\ compact[j + 1] = " ")
        /\ Ink(compact) = Ink(text)
        /\ Len(compact) = Len(Ink(text)) + Runs(text)

\* C14 happens: a text with a run of mixed whitespace is normalized
C14_Witness ==
    /\ pc = "normalized"
    /\ text = << "a", "\n", "\t", "," >>
    /\ compact = << "a", " ", "," >>

RECURSIVE RefDigits(_, _)
\* the number the digits among the first n characters of t spell, the
\* other characters passed over
RefDigits(t, n) ==
    IF n = 0
    THEN 0
    ELSE IF t[n] \in DIGITS
    THEN RefDigits(t, n - 1) * 10 + DigitVal(t[n])
    ELSE RefDigits(t, n - 1)

\* a count token: digits and thousands separators, a digit among them
IsCount(t) ==
    /\ \A j \in 1..Len(t) : t[j] \in DIGITS \cup {","}
    /\ \E j \in 1..Len(t) : t[j] \in DIGITS

\* the number of digits after the decimal point of t
Decimals(t) ==
    Cardinality({j \in 1..Len(t) : t[j] \in DIGITS /\ \E h \in 1..(j - 1) : t[h] = "."})

\* an amount token without sign: digits, thousands separators and at most
\* one decimal point, a digit among them, no more than two decimals
IsPlain(t) ==
    /\ \A j \in 1..Len(t) : t[j] \in DIGITS \cup {",", "."}
    /\ \E j \in 1..Len(t) : t[j] \in DIGITS
    /\ Cardinality({j \in 1..Len(t) : t[j] = "."}) <= 1
    /\ Decimals(t) <= 2

\* its value, in hundredths
RefPlain(t) == RefDigits(t, Len(t)) * (10 ^ (2 - Decimals(t)))

\* a token wrapped in parentheses
IsWrapped(t) == Len(t) >= 2 /\ t[1] = "(" /\ t[Len(t)] = ")"

\* C15: _clean_int of digits with thousands separators is the integer the
\* digits spell; _clean_amt of an amount is its value, the separators
\* passed over, and of an amount in parentheses the negation of that
\* value; a token without a digit, the empty token first, raises
\* ValueError from both and is never given the value 0.
C15_NumericTokens ==
    /\ pc = "int" =>
          /\ IsCount(token) => number = Value(RefDigits(token, Len(token)))
          /\ (\A j \in 1..Len(token) : token[j] = ",") => number.exc = "ValueError"
    /\ pc = "amt" =>
          /\ IsPlain(token) => number = Value(RefPlain(token))
          /\ (IsWrapped(token) /\ IsPlain(SubSeq(token, 2, Len(token) - 1)))
                => number = Value(0 - RefPlain(SubSeq(token, 2, Len(token) - 1)))
          /\ (\A j \in 1..Len(token) : token[j] \notin DIGITS) => number.exc = "ValueError"

\* C15 happens: "(500.00)" is parsed as -500.00
C15_Witness ==
    /\ pc = "amt"
    /\ token = E_negative
    /\ number = Value(0 - 50000)

\* the position in frags of its n-th located header
HeaderPos(frags, n) ==
    CHOOSE j \in 1..Len(frags) :
        /\ frags[j] \in QuotedHeaders
        /\ Cardinality({h \in 1..j : frags[h] \in QuotedHeaders}) = n

SameRecords(rs, rs2) ==
    /\ Len(rs2) = Len(rs)
    /\ \A n \in 1..Len(rs) :
          Cardinality({m \in 1..Len(rs) : rs[m] = rs[n]})
              = Cardinality({m \in 1..Len(rs2) : rs2[m] = rs[n]})

\* C17: every call of parse_one_pdf starts from category totals of its
\* own, all at 0; the record appended for a document holds what that
\* document alone says; a step of the script leaves every record already
\* in the list as it is: the loop only appends, and the sort only
\* reorders.
C17_IndependentRecords ==
    [][/\ (pc = "headers" /\ pc' = "blocks") =>
              \A c \in Categories : by_status'[c] = [act |-> 0, amt |-> 0]
       /\ (pc = "parsed" /\ pc' = "loop" /\ Len(records') = Len(records) + 1) =>
              LET r == records'[Len(records')] IN
              /\ r.period = RefPeriod(uploaded_files[i], app)
              /\ r.grand = grand
              /\ \A c \in Categories :
                    /\ r.by_status[c].act = RefAct(CurFrags, c, Len(CurFrags))
                    /\ r.by_status[c].amt = RefAmt(CurFrags, c, Len(CurFrags))
       /\ IF pc = "loop" /\ pc' \in {"report", "crashed"}
          THEN SameRecords(records, records')
          ELSE /\ Len(records') >= Len(records)
               /\ SubSeq(records', 1, Len(records)) = records
      ]_vars

\* C17 happens: a second document was processed after a first one, and
\* each record has the totals of its own document only
C17_Witness ==
    /\ pc = "loop"
    /\ Len(records) = 2
    /\ records[1].period = I_dOk
    /\ records[1].by_status[L_ACT].act = 100
    /\ records[1].by_status[L_COM].act = 0
    /\ records[2].period = N_a
    /\ records[2].by_status[L_ACT].act = 0
    /\ records[2].by_status[L_COM].act = 1000

\* the amount of the header at position j when a currency token may
\* belong to one block only: the token selected for it counts unless
\* another located header stands between the token and the header
OwnAmount(frags, j) ==
    LET p == NearestDollar(frags, j)
        h == LastBefore(frags, j, QuotedHeaders)
    IN  IF p = 0 \/ p < h THEN 0 ELSE FragDollar(frags[p])

RECURSIVE OwnAmt(_, _, _)
\* the sum of those amounts over the headers of category c among the
\* first n fragments
OwnAmt(frags, c, n) ==
    IF n = 0
    THEN 0
    ELSE OwnAmt(frags, c, n - 1)
           + (IF frags[n] \in QuotedHeaders /\ FragCat(frags[n]) = c
              THEN OwnAmount(frags, n) ELSE 0)

\* C18: the currency token selected for a block does not lie before
\* another header that precedes the block's header: every token of the
\* text is added to the amount of one block at most, and the category
\* amounts are the sums of the blocks' own tokens.
C18_NoDoubleAttribution ==
    pc = "parsed" =>
        \A c \in Categories : by_status[c].amt = OwnAmt(CurFrags, c, Len(CurFrags))

\* the loop is through with every uploaded file and none gave a record
NothingLoaded ==
    /\ uploaded_files # << >>
    /\ Len(outcome) = Len(uploaded_files)
    /\ \A j \in 1..Len(outcome) : outcome[j] # "record"

\* C19: the current report is selected only from a list with a record in
\* it, and is its last record; when every document of the batch was
\* skipped or failed the script stops with an error message, no current
\* report selected, and never reads records[-1] of an empty list.
C19_CurrentNeedsRecord ==
    /\ exc # "IndexError"
    /\ pc = "report" => (records # << >> /\ current = records[Len(records)])
    /\ (Terminal /\ NothingLoaded) =>
          /\ pc = "stopped"
          /\ errors # << >>
          /\ errors[Len(errors)] = "No valid records"
          /\ current = << >>

====
